---- MODULE Spec2Model ----
(***************************************************************************)
(* The relational store declared by SMA/core/models.py.                    *)
(*                                                                         *)
(* The repository is a set of Django model declarations.  Its state is the *)
(* content of the tables; its operations are the object-relational calls   *)
(* the declarations parametrise: Model.objects.create (INSERT),            *)
(* Model.save (UPDATE of the row's columns) and Model.delete.  A write is  *)
(* accepted exactly when the constraints the declaration carries hold:     *)
(* unique=True, unique_together, PositiveIntegerField (>= 0), null=True.   *)
(* A rejected write raises IntegrityError and leaves the table unchanged.  *)
(* Nothing else in the source guards a write, so nothing else guards one   *)
(* here.                                                                   *)
(***************************************************************************)
EXTENDS Integers, FiniteSets, Sequences, TLC

VARIABLES subscriptions, payments, invoices, coupons, payouts, webhooks,
          referralLinks, tickets, now, result, pc, mem,
          users, subscribers, providers, plans, events, organizations, bundles

vars == <<subscriptions, payments, invoices, coupons, payouts, webhooks,
          referralLinks, tickets, now, result, pc, mem,
          users, subscribers, providers, plans, events, organizations, bundles>>

(* The tables the purchase and ledger rows refer to. *)
catalog == <<users, subscribers, providers, plans, events, organizations, bundles>>

----------------------------------------------------------------------------
(* Bounds of the model. *)

NumSubscribers == 2
NumPlans == 2
NumKeys == 2
MaxRows == 3
MaxCount == 2
MaxTime == 2
MaxAmount == 1
MaxInvoices == 1
MaxSubscriptions == 2
MaxCoupons == 1
MaxPayouts == 1
MaxWebhooks == 1
MaxAttempts == 4
NumPayloads == 2
NumWriters == 2
MaxLedgerRows == 1
MaxLifecycleRows == 1
MaxSlugRows == 3

Subscribers == 1..NumSubscribers
Plans == 1..NumPlans
Keys == 1..NumKeys
Ids == 1..MaxRows
Counts == 0..MaxCount
Times == 0..MaxTime
Amounts == 0..MaxAmount
Writers == 1..NumWriters
Payloads == 1..NumPayloads
Attempts == 0..MaxAttempts

(* null=True: the value of a nullable column that holds no value. *)
NULL == 0 - 1

(* The pk of the next row of a table: AutoField, one more than the largest *)
(* pk the table holds.                                                     *)
NextPk(rows) == IF rows = {} THEN 1
                ELSE 1 + CHOOSE m \in {r.id : r \in rows} :
                               \A r \in rows : r.id <= m

Row(rows, id) == CHOOSE r \in rows : r.id = id

(* The outcome of the last call: its name, its arguments, what it raised. *)
Ok(op, args) == [op |-> op, args |-> args, outcome |-> "ok"]
IntegrityError(op, args) == [op |-> op, args |-> args, outcome |-> "IntegrityError"]

NoWriter == /\ pc = [w \in Writers |-> "idle"]
            /\ mem = [w \in Writers |-> <<>>]

----------------------------------------------------------------------------
(* Subscription: unique_together = ("subscriber", "plan"). *)

SubscriptionStatus == {"active", "paused", "canceled", "expired"}

SubscriptionUniqueDraft(rows, r) == TRUE

SubscriptionUnique(rows, r) ==
    \A x \in rows : x.id # r.id =>
        ~(x.subscriber = r.subscriber /\ x.plan = r.plan)

NewSubscription(id, s, p) ==
    [id |-> id, subscriber |-> s, plan |-> p,
     status |-> "active", is_active |-> TRUE, deleted_at |-> NULL,
     current_period_start |-> NULL, current_period_end |-> NULL,
     auto_renew |-> TRUE, cancel_at_period_end |-> FALSE,
     canceled_at |-> NULL, paused_at |-> NULL, resumed_at |-> NULL]

(* Subscription.objects.create(subscriber=s, plan=p) *)
SubscriptionCreate(s, p) ==
    LET r == NewSubscription(NextPk(subscriptions), s, p) IN
    /\ NextPk(subscriptions) \in 1..MaxSubscriptions
    /\ IF SubscriptionUnique(subscriptions, r)
       THEN /\ subscriptions' = subscriptions \cup {r}
            /\ result' = Ok("Subscription.create", <<s, p>>)
       ELSE /\ subscriptions' = subscriptions
            /\ result' = IntegrityError("Subscription.create", <<s, p>>)
    /\ UNCHANGED <<catalog, payments, invoices, coupons, payouts, webhooks,
                   referralLinks, tickets, now, pc, mem>>

(* subscription.save() after assigning subscriber and plan *)
SubscriptionSave(id, s, p) ==
    /\ \E x \in subscriptions : x.id = id
    /\ LET old == Row(subscriptions, id)
           r == [old EXCEPT !.subscriber = s, !.plan = p] IN
       IF SubscriptionUnique(subscriptions, r)
       THEN /\ subscriptions' = (subscriptions \ {old}) \cup {r}
            /\ result' = Ok("Subscription.save", <<s, p>>)
       ELSE /\ subscriptions' = subscriptions
            /\ result' = IntegrityError("Subscription.save", <<s, p>>)
    /\ UNCHANGED <<catalog, payments, invoices, coupons, payouts, webhooks,
                   referralLinks, tickets, now, pc, mem>>

(* SoftDeleteModel: the row is kept and marked is_active=False *)
SubscriptionSoftDelete(id) ==
    /\ \E x \in subscriptions : x.id = id
    /\ LET old == Row(subscriptions, id)
           r == [old EXCEPT !.is_active = FALSE, !.deleted_at = now] IN
       /\ subscriptions' = (subscriptions \ {old}) \cup {r}
       /\ result' = Ok("Subscription.soft_delete", <<old.subscriber, old.plan>>)
    /\ UNCHANGED <<catalog, payments, invoices, coupons, payouts, webhooks,
                   referralLinks, tickets, now, pc, mem>>

----------------------------------------------------------------------------
(* PaymentTransaction: reference is unique=True. *)

PaymentTypes == {"charge", "transfer", "refund"}

ReferenceUniqueDraft(rows, r) == TRUE

ReferenceUnique(rows, r) ==
    \A x \in rows : x.id # r.id => x.reference # r.reference

NewPayment(id, ref, ty) ==
    [id |-> id, reference |-> ref, transaction_type |-> ty,
     user |-> 1, event |-> NULL, subscription |-> NULL, ticket |-> NULL]

(* PaymentTransaction.objects.create(reference=ref, transaction_type=ty) *)
PaymentCreate(ref, ty) ==
    LET r == NewPayment(NextPk(payments), ref, ty) IN
    /\ NextPk(payments) \in Ids
    /\ IF ReferenceUnique(payments, r)
       THEN /\ payments' = payments \cup {r}
            /\ result' = Ok("PaymentTransaction.create", ref)
       ELSE /\ payments' = payments
            /\ result' = IntegrityError("PaymentTransaction.create", ref)
    /\ UNCHANGED <<catalog, subscriptions, invoices, coupons, payouts, webhooks,
                   referralLinks, tickets, now, pc, mem>>

(* payment.save() after assigning reference and transaction_type *)
PaymentSave(id, ref, ty) ==
    /\ \E x \in payments : x.id = id
    /\ LET old == Row(payments, id)
           r == [old EXCEPT !.reference = ref, !.transaction_type = ty] IN
       IF ReferenceUnique(payments, r)
       THEN /\ payments' = (payments \ {old}) \cup {r}
            /\ result' = Ok("PaymentTransaction.save", ref)
       ELSE /\ payments' = payments
            /\ result' = IntegrityError("PaymentTransaction.save", ref)
    /\ UNCHANGED <<catalog, subscriptions, invoices, coupons, payouts, webhooks,
                   referralLinks, tickets, now, pc, mem>>

----------------------------------------------------------------------------
(* Invoice: invoice_number is unique=True; subtotal, tax_amount and        *)
(* total_amount are three independent DecimalField columns, default 0.     *)

InvoiceNumberUnique(rows, r) ==
    \A x \in rows : x.id # r.id => x.invoice_number # r.invoice_number

InvoiceDefaultsSkewed == [subtotal |-> 0, tax_amount |-> 0, total_amount |-> 1]

InvoiceDefaults == [subtotal |-> 0, tax_amount |-> 0, total_amount |-> 0]

InvoiceAmounts == [subtotal : Amounts, tax_amount : Amounts, total_amount : Amounts]

NewInvoice(id, num, a) ==
    [id |-> id, invoice_number |-> num, status |-> "draft",
     subtotal |-> a.subtotal, tax_amount |-> a.tax_amount,
     total_amount |-> a.total_amount,
     user |-> 1, subscription |-> NULL, payment |-> NULL]

InvoiceInsert(num, a, how) ==
    LET r == NewInvoice(NextPk(invoices), num, a) IN
    /\ NextPk(invoices) \in 1..MaxInvoices
    /\ IF InvoiceNumberUnique(invoices, r)
       THEN /\ invoices' = invoices \cup {r}
            /\ result' = Ok("Invoice.create", how)
       ELSE /\ invoices' = invoices
            /\ result' = IntegrityError("Invoice.create", how)
    /\ UNCHANGED <<catalog, subscriptions, payments, coupons, payouts, webhooks,
                   referralLinks, tickets, now, pc, mem>>

(* Invoice.objects.create(invoice_number=num): the amounts take their defaults *)
InvoiceCreateDefault(num) == InvoiceInsert(num, InvoiceDefaults, "default")

(* Invoice.objects.create(invoice_number=num, subtotal=, tax_amount=, total_amount=) *)
InvoiceCreate(num, a) == InvoiceInsert(num, a, "explicit")

(* invoice.save() after assigning the amounts *)
InvoiceSave(id, a) ==
    /\ \E x \in invoices : x.id = id
    /\ LET old == Row(invoices, id)
           r == [old EXCEPT !.subtotal = a.subtotal,
                            !.tax_amount = a.tax_amount,
                            !.total_amount = a.total_amount] IN
       /\ invoices' = (invoices \ {old}) \cup {r}
       /\ result' = Ok("Invoice.save", "explicit")
    /\ UNCHANGED <<catalog, subscriptions, payments, coupons, payouts, webhooks,
                   referralLinks, tickets, now, pc, mem>>

(* invoice.save() after assigning status only *)
InvoiceSaveStatus(id, st) ==
    /\ \E x \in invoices : x.id = id
    /\ LET old == Row(invoices, id)
           r == [old EXCEPT !.status = st] IN
       /\ invoices' = (invoices \ {old}) \cup {r}
       /\ result' = Ok("Invoice.save", "status")
    /\ UNCHANGED <<catalog, subscriptions, payments, coupons, payouts, webhooks,
                   referralLinks, tickets, now, pc, mem>>

InvoiceStatus == {"draft", "sent", "paid", "overdue", "canceled"}

----------------------------------------------------------------------------
(* The clock that DateTimeField values are compared with. *)
Tick ==
    /\ now < MaxTime
    /\ now' = now + 1
    /\ result' = Ok("tick", <<>>)
    /\ UNCHANGED <<catalog, subscriptions, payments, invoices, coupons, payouts,
                   webhooks, referralLinks, tickets, pc, mem>>

(* PositiveIntegerField: the column accepts a value that is >= 0. *)
PositiveIntegerField(v) == v >= 0

(* PositiveIntegerField(null=True): NULL or a value that is >= 0. *)
NullablePositiveIntegerField(v) == v = NULL \/ v >= 0

----------------------------------------------------------------------------
(* Coupon: code is unique=True; usage_limit, times_redeemed and expires_at *)
(* are independent columns.                                                *)

CouponCodeUnique(rows, r) ==
    \A x \in rows : x.id # r.id => x.code # r.code

CouponValid(rows, r) ==
    /\ CouponCodeUnique(rows, r)
    /\ NullablePositiveIntegerField(r.usage_limit)
    /\ PositiveIntegerField(r.times_redeemed)

NewCoupon(id, code, limit, n, exp) ==
    [id |-> id, code |-> code, usage_limit |-> limit,
     times_redeemed |-> n, expires_at |-> exp]

(* Coupon.objects.create(code=, usage_limit=, times_redeemed=, expires_at=) *)
CouponCreate(code, limit, n, exp) ==
    LET r == NewCoupon(NextPk(coupons), code, limit, n, exp) IN
    /\ NextPk(coupons) \in 1..MaxCoupons
    /\ IF CouponValid(coupons, r)
       THEN /\ coupons' = coupons \cup {r}
            /\ result' = Ok("Coupon.create", r.id)
       ELSE /\ coupons' = coupons
            /\ result' = IntegrityError("Coupon.create", r.id)
    /\ UNCHANGED <<catalog, subscriptions, payments, invoices, payouts, webhooks,
                   referralLinks, tickets, now, pc, mem>>

(* coupon.times_redeemed += 1; coupon.save(): a redemption *)
CouponRedeem(id) ==
    /\ \E x \in coupons : x.id = id
    /\ LET old == Row(coupons, id)
           r == [old EXCEPT !.times_redeemed = old.times_redeemed + 1] IN
       /\ old.times_redeemed < MaxCount
       /\ IF CouponValid(coupons, r)
          THEN /\ coupons' = (coupons \ {old}) \cup {r}
               /\ result' = Ok("Coupon.redeem", id)
          ELSE /\ coupons' = coupons
               /\ result' = IntegrityError("Coupon.redeem", id)
    /\ UNCHANGED <<catalog, subscriptions, payments, invoices, payouts, webhooks,
                   referralLinks, tickets, now, pc, mem>>

(* coupon.save() after assigning usage_limit, times_redeemed, expires_at *)
CouponSave(id, limit, n, exp) ==
    /\ \E x \in coupons : x.id = id
    /\ LET old == Row(coupons, id)
           r == [old EXCEPT !.usage_limit = limit, !.times_redeemed = n,
                            !.expires_at = exp] IN
       IF CouponValid(coupons, r)
       THEN /\ coupons' = (coupons \ {old}) \cup {r}
            /\ result' = Ok("Coupon.save", id)
       ELSE /\ coupons' = coupons
            /\ result' = IntegrityError("Coupon.save", id)
    /\ UNCHANGED <<catalog, subscriptions, payments, invoices, payouts, webhooks,
                   referralLinks, tickets, now, pc, mem>>

----------------------------------------------------------------------------
(* Payout: paystack_transfer_id is unique=True; status, attempts,          *)
(* last_error and processed_at are independent columns.                    *)
(* PlatformSettings.retry_attempts defaults to 3.                          *)

retry_attempts == 3

PayoutStatus == {"pending", "paid", "failed"}

PayoutValid(rows, r) ==
    /\ \A x \in rows : x.id # r.id =>
          x.paystack_transfer_id # r.paystack_transfer_id
    /\ PositiveIntegerField(r.attempts)

NewPayout(id, tid) ==
    [id |-> id, paystack_transfer_id |-> tid, status |-> "pending",
     attempts |-> 0, last_error |-> "", processed_at |-> NULL]

(* Payout.objects.create(paystack_transfer_id=tid) *)
PayoutCreate(tid) ==
    LET r == NewPayout(NextPk(payouts), tid) IN
    /\ NextPk(payouts) \in 1..MaxPayouts
    /\ IF PayoutValid(payouts, r)
       THEN /\ payouts' = payouts \cup {r}
            /\ result' = Ok("Payout.create", r.id)
       ELSE /\ payouts' = payouts
            /\ result' = IntegrityError("Payout.create", r.id)
    /\ UNCHANGED <<catalog, subscriptions, payments, invoices, coupons, webhooks,
                   referralLinks, tickets, now, pc, mem>>

(* payout.save() after assigning status, attempts, last_error, processed_at *)
PayoutSave(id, st, n, err, at) ==
    /\ \E x \in payouts : x.id = id
    /\ LET old == Row(payouts, id)
           r == [old EXCEPT !.status = st, !.attempts = n,
                            !.last_error = err, !.processed_at = at] IN
       IF PayoutValid(payouts, r)
       THEN /\ payouts' = (payouts \ {old}) \cup {r}
            /\ result' = Ok("Payout.save", id)
       ELSE /\ payouts' = payouts
            /\ result' = IntegrityError("Payout.save", id)
    /\ UNCHANGED <<catalog, subscriptions, payments, invoices, coupons, webhooks,
                   referralLinks, tickets, now, pc, mem>>

----------------------------------------------------------------------------
(* PaystackWebhook: event, payload, status, processed and processed_at are *)
(* plain columns; no relation protects a row from deletion.                *)

WebhookStatus == {"pending", "processed", "failed"}

WebhookEvents == {"charge.success", "transfer.failed"}

(* PaystackWebhook.objects.create(event=e, payload=pl) *)
WebhookCreate(e, pl) ==
    LET r == [id |-> NextPk(webhooks), event |-> e, payload |-> pl,
              status |-> "pending", processed |-> FALSE,
              processed_at |-> NULL] IN
    /\ NextPk(webhooks) \in 1..MaxWebhooks
    /\ webhooks' = webhooks \cup {r}
    /\ result' = Ok("PaystackWebhook.create", r.id)
    /\ UNCHANGED <<catalog, subscriptions, payments, invoices, coupons, payouts,
                   referralLinks, tickets, now, pc, mem>>

(* webhook.save(update_fields=["processed", "processed_at", "status"]) *)
WebhookMarkProcessed(id, st) ==
    /\ \E x \in webhooks : x.id = id
    /\ LET old == Row(webhooks, id)
           r == [old EXCEPT !.processed = TRUE, !.processed_at = now,
                            !.status = st] IN
       /\ webhooks' = (webhooks \ {old}) \cup {r}
       /\ result' = Ok("PaystackWebhook.mark", id)
    /\ UNCHANGED <<catalog, subscriptions, payments, invoices, coupons, payouts,
                   referralLinks, tickets, now, pc, mem>>

(* webhook.save() after assigning event, payload, status, processed *)
WebhookSave(id, e, pl, st, pr) ==
    /\ \E x \in webhooks : x.id = id
    /\ LET old == Row(webhooks, id)
           r == [old EXCEPT !.event = e, !.payload = pl, !.status = st,
                            !.processed = pr] IN
       /\ webhooks' = (webhooks \ {old}) \cup {r}
       /\ result' = Ok("PaystackWebhook.save", id)
    /\ UNCHANGED <<catalog, subscriptions, payments, invoices, coupons, payouts,
                   referralLinks, tickets, now, pc, mem>>

(* webhook.delete() *)
WebhookDelete(id) ==
    /\ \E x \in webhooks : x.id = id
    /\ webhooks' = webhooks \ {Row(webhooks, id)}
    /\ result' = Ok("PaystackWebhook.delete", id)
    /\ UNCHANGED <<catalog, subscriptions, payments, invoices, coupons, payouts,
                   referralLinks, tickets, now, pc, mem>>

----------------------------------------------------------------------------
(* ReferralLink: code is unique=True; used_count counts the uses.          *)
(* Ticket: ticket_uuid and qr_code are unique=True.                        *)

ReferralCodeUnique(rows, r) ==
    \A x \in rows : x.id # r.id => x.code # r.code

NewReferralLink(id, code) ==
    [id |-> id, code |-> code, max_uses |-> NULL, used_count |-> 0]

TicketUuidUniqueDraft(rows, r) ==
    \A x \in rows : x.id # r.id => x.qr_code # r.qr_code

TicketUuidUnique(rows, r) ==
    \A x \in rows : x.id # r.id =>
        (x.ticket_uuid # r.ticket_uuid /\ x.qr_code # r.qr_code)

NewTicket(id, uuid) ==
    [id |-> id, ticket_uuid |-> uuid, qr_code |-> id, status |-> "issued",
     subscriber |-> 1]

----------------------------------------------------------------------------
(* Concurrent writers.  A writer is one request: it builds a model         *)
(* instance in memory and then issues one statement.  The store runs each  *)
(* statement atomically; a unique column is checked by the statement       *)
(* against the table as it is when the statement runs.                     *)

UniqueTables == {"PaymentTransaction", "Coupon", "ReferralLink", "Invoice",
                 "Payout", "Ticket"}

(* The INSERT of a row carrying unique key k passes the table's checks. *)
InsertAccepted(t, k) ==
    CASE t = "PaymentTransaction" ->
           ReferenceUnique(payments, NewPayment(NextPk(payments), k, "charge"))
      [] t = "Coupon" ->
           CouponValid(coupons, NewCoupon(NextPk(coupons), k, NULL, 0, NULL))
      [] t = "ReferralLink" ->
           ReferralCodeUnique(referralLinks, NewReferralLink(NextPk(referralLinks), k))
      [] t = "Invoice" ->
           InvoiceNumberUnique(invoices, NewInvoice(NextPk(invoices), k, InvoiceDefaults))
      [] t = "Payout" ->
           PayoutValid(payouts, NewPayout(NextPk(payouts), k))
      [] t = "Ticket" ->
           TicketUuidUnique(tickets, NewTicket(NextPk(tickets), k))

(* Model(key=k): the instance is built in memory, nothing is written yet *)
WriterBuild(w, t, k) ==
    /\ pc[w] = "idle"
    /\ pc' = [pc EXCEPT ![w] = "built"]
    /\ mem' = [mem EXCEPT ![w] = [table |-> t, key |-> k, outcome |-> "none"]]
    /\ UNCHANGED <<catalog, subscriptions, payments, invoices, coupons, payouts,
                   webhooks, referralLinks, tickets, now, result>>

(* instance.save(): the INSERT statement *)
WriterInsert(w) ==
    /\ pc[w] = "built"
    /\ LET t == mem[w].table
           k == mem[w].key
           ok == InsertAccepted(t, k) IN
       /\ payments' = IF ok /\ t = "PaymentTransaction"
                      THEN payments \cup {NewPayment(NextPk(payments), k, "charge")}
                      ELSE payments
       /\ coupons' = IF ok /\ t = "Coupon"
                     THEN coupons \cup {NewCoupon(NextPk(coupons), k, NULL, 0, NULL)}
                     ELSE coupons
       /\ referralLinks' = IF ok /\ t = "ReferralLink"
                           THEN referralLinks \cup {NewReferralLink(NextPk(referralLinks), k)}
                           ELSE referralLinks
       /\ invoices' = IF ok /\ t = "Invoice"
                      THEN invoices \cup {NewInvoice(NextPk(invoices), k, InvoiceDefaults)}
                      ELSE invoices
       /\ payouts' = IF ok /\ t = "Payout"
                     THEN payouts \cup {NewPayout(NextPk(payouts), k)}
                     ELSE payouts
       /\ tickets' = IF ok /\ t = "Ticket"
                     THEN tickets \cup {NewTicket(NextPk(tickets), k)}
                     ELSE tickets
       /\ mem' = [mem EXCEPT ![w].outcome =
                    IF ok THEN "ok" ELSE "IntegrityError"]
    /\ pc' = [pc EXCEPT ![w] = "done"]
    /\ UNCHANGED <<catalog, subscriptions, webhooks, now, result>>

(* Counters.  The declarations give times_redeemed, used_count and         *)
(* attempts as plain integer columns and no method that changes them in    *)
(* the store: a writer increments one through the instance, which it loads *)
(* and saves.                                                              *)

CounterTables == {"Coupon", "ReferralLink", "Payout"}

CounterRows(t) ==
    CASE t = "Coupon" -> coupons
      [] t = "ReferralLink" -> referralLinks
      [] t = "Payout" -> payouts

CounterOf(t, r) ==
    CASE t = "Coupon" -> r.times_redeemed
      [] t = "ReferralLink" -> r.used_count
      [] t = "Payout" -> r.attempts

(* instance = Model.objects.get(pk=id) *)
WriterLoad(w, t, id) ==
    /\ pc[w] = "idle"
    /\ \E x \in CounterRows(t) : x.id = id
    /\ pc' = [pc EXCEPT ![w] = "loaded"]
    /\ mem' = [mem EXCEPT ![w] =
                 [table |-> t, key |-> id,
                  value |-> CounterOf(t, Row(CounterRows(t), id))]]
    /\ UNCHANGED <<catalog, subscriptions, payments, invoices, coupons, payouts,
                   webhooks, referralLinks, tickets, now, result>>

(* instance.counter += 1; instance.save() *)
WriterSaveIncrement(w) ==
    /\ pc[w] = "loaded"
    /\ LET t == mem[w].table
           id == mem[w].key
           v == mem[w].value + 1 IN
       /\ \E x \in CounterRows(t) : x.id = id
       /\ coupons' = IF t = "Coupon"
                     THEN {IF x.id = id THEN [x EXCEPT !.times_redeemed = v] ELSE x :
                              x \in coupons}
                     ELSE coupons
       /\ referralLinks' = IF t = "ReferralLink"
                           THEN {IF x.id = id THEN [x EXCEPT !.used_count = v] ELSE x :
                                    x \in referralLinks}
                           ELSE referralLinks
       /\ payouts' = IF t = "Payout"
                     THEN {IF x.id = id THEN [x EXCEPT !.attempts = v] ELSE x :
                              x \in payouts}
                     ELSE payouts
    /\ pc' = [pc EXCEPT ![w] = "done"]
    /\ UNCHANGED <<catalog, subscriptions, payments, invoices, webhooks, tickets,
                   now, result, mem>>

----------------------------------------------------------------------------
(* Relations between the tables and their on_delete policies.              *)
(*   Subscriber.user, ServiceProvider.user           CASCADE               *)
(*   ServicePlan.provider, Event.provider            PROTECT               *)
(*   Subscription.subscriber, Subscription.plan      PROTECT               *)
(*   Ticket.subscriber                               PROTECT               *)
(*   PaymentTransaction.user, .event, .subscription, .ticket   PROTECT     *)
(*   Invoice.user                                    PROTECT               *)
(*   Invoice.subscription, Invoice.payment           SET_NULL              *)

IdsOf(rows) == {x.id : x \in rows}

SampleName == <<"a">>

NewUser(id) == [id |-> id]

NewSubscriber(id, u) == [id |-> id, user |-> u]

NewProvider(id, u) == [id |-> id, user |-> u]

NewPlan(id, pr, name, slug) ==
    [id |-> id, provider |-> pr, name |-> name, slug |-> slug]

NewEvent(id, pr, name, slug) ==
    [id |-> id, provider |-> pr, name |-> name, slug |-> slug]

ProtectedError(op, args) == [op |-> op, args |-> args, outcome |-> "ProtectedError"]

(* The table after an INSERT statement: the row is there when the          *)
(* statement passed its checks, and the table is as it was otherwise.      *)
InsertedAnyway(rows, r, ok) == rows \cup {r}

Inserted(rows, r, ok) == IF ok THEN rows \cup {r} ELSE rows

(* ForeignKey columns refer to rows that exist. *)
PaymentRefsExist(r) ==
    /\ r.user \in IdsOf(users)
    /\ r.event = NULL \/ r.event \in IdsOf(events)
    /\ r.subscription = NULL \/ r.subscription \in IdsOf(subscriptions)
    /\ r.ticket = NULL \/ r.ticket \in IdsOf(tickets)

InvoiceRefsExist(rows, r) ==
    /\ r.user \in IdsOf(users)
    /\ r.subscription = NULL \/ r.subscription \in IdsOf(subscriptions)
    /\ r.payment = NULL \/ r.payment \in IdsOf(payments)
    /\ r.payment = NULL \/ \A x \in rows : x.id # r.id => x.payment # r.payment

SubscriptionRefsExist(r) ==
    /\ r.subscriber \in IdsOf(subscribers)
    /\ r.plan \in IdsOf(plans)

(* on_delete=PROTECT: rows that refer to the row keep it from deletion. *)
SubscriptionProtectedDraft(id) == FALSE

SubscriptionProtected(id) == \E x \in payments : x.subscription = id

SubscriberProtected(id) ==
    \/ \E x \in subscriptions : x.subscriber = id
    \/ \E x \in tickets : x.subscriber = id

PlanProtected(id) == \E x \in subscriptions : x.plan = id

ProviderProtected(id) ==
    \/ \E x \in plans : x.provider = id
    \/ \E x \in events : x.provider = id

EventProtected(id) == \E x \in payments : x.event = id

TicketProtected(id) == \E x \in payments : x.ticket = id

(* Deleting a User cascades to its Subscriber and ServiceProvider rows,    *)
(* and every PROTECT relation of the collected rows is checked.            *)
UserProtected(id) ==
    \/ \E x \in payments : x.user = id
    \/ \E x \in invoices : x.user = id
    \/ \E x \in subscribers : x.user = id /\ SubscriberProtected(x.id)
    \/ \E x \in providers : x.user = id /\ ProviderProtected(x.id)

ledgerRest == <<coupons, webhooks, referralLinks, now, pc, mem,
                organizations, bundles>>

(* PaymentTransaction.objects.create(reference=, user=, event=,            *)
(*                                   subscription=, ticket=)               *)
PaymentCreateFor(ref, u, e, sub, t) ==
    LET r == [NewPayment(NextPk(payments), ref, "charge") EXCEPT
                 !.user = u, !.event = e, !.subscription = sub, !.ticket = t]
        ok == ReferenceUnique(payments, r) /\ PaymentRefsExist(r) IN
    /\ NextPk(payments) \in 1..MaxLedgerRows
    /\ payments' = Inserted(payments, r, ok)
    /\ result' = IF ok THEN Ok("PaymentTransaction.create", r.id)
                 ELSE IntegrityError("PaymentTransaction.create", r.id)
    /\ UNCHANGED <<users, subscribers, providers, plans, events, tickets,
                   subscriptions, invoices, payouts, ledgerRest>>

(* Invoice.objects.create(invoice_number=, user=, subscription=, payment=) *)
InvoiceCreateFor(num, u, sub, pay) ==
    LET r == [NewInvoice(NextPk(invoices), num, InvoiceDefaults) EXCEPT
                 !.user = u, !.subscription = sub, !.payment = pay]
        ok == InvoiceNumberUnique(invoices, r) /\ InvoiceRefsExist(invoices, r) IN
    /\ NextPk(invoices) \in 1..MaxLedgerRows
    /\ invoices' = Inserted(invoices, r, ok)
    /\ result' = IF ok THEN Ok("Invoice.create", r.id)
                 ELSE IntegrityError("Invoice.create", r.id)
    /\ UNCHANGED <<users, subscribers, providers, plans, events, tickets,
                   subscriptions, payments, payouts, ledgerRest>>

(* Payout.objects.create(paystack_transfer_id=tid, attempts=n) *)
PayoutCreateFor(tid, n) ==
    LET r == [NewPayout(NextPk(payouts), tid) EXCEPT !.attempts = n]
        ok == PayoutValid(payouts, r) IN
    /\ NextPk(payouts) \in 1..(MaxLedgerRows + 1)
    /\ payouts' = Inserted(payouts, r, ok)
    /\ result' = IF ok THEN Ok("Payout.create", r.id)
                 ELSE IntegrityError("Payout.create", r.id)
    /\ UNCHANGED <<users, subscribers, providers, plans, events, tickets,
                   subscriptions, payments, invoices, ledgerRest>>

(* Subscription.objects.create(subscriber=s, plan=p), the rows referred to *)
(* being looked up                                                         *)
SubscriptionCreateFor(s, p) ==
    LET r == NewSubscription(NextPk(subscriptions), s, p)
        ok == SubscriptionUnique(subscriptions, r) /\ SubscriptionRefsExist(r) IN
    /\ NextPk(subscriptions) \in 1..MaxLedgerRows
    /\ subscriptions' = Inserted(subscriptions, r, ok)
    /\ result' = IF ok THEN Ok("Subscription.create", <<s, p>>)
                 ELSE IntegrityError("Subscription.create", <<s, p>>)
    /\ UNCHANGED <<users, subscribers, providers, plans, events, tickets,
                   payments, invoices, payouts, ledgerRest>>

(* user.delete() *)
UserDelete(id) ==
    /\ id \in IdsOf(users)
    /\ IF UserProtected(id)
       THEN /\ result' = ProtectedError("User.delete", id)
            /\ UNCHANGED <<users, subscribers, providers>>
       ELSE /\ result' = Ok("User.delete", id)
            /\ users' = {x \in users : x.id # id}
            /\ subscribers' = {x \in subscribers : x.user # id}
            /\ providers' = {x \in providers : x.user # id}
    /\ UNCHANGED <<plans, events, tickets, subscriptions, payments, invoices,
                   payouts, ledgerRest>>

(* subscriber.delete() *)
SubscriberDelete(id) ==
    /\ id \in IdsOf(subscribers)
    /\ IF SubscriberProtected(id)
       THEN /\ result' = ProtectedError("Subscriber.delete", id)
            /\ UNCHANGED subscribers
       ELSE /\ result' = Ok("Subscriber.delete", id)
            /\ subscribers' = {x \in subscribers : x.id # id}
    /\ UNCHANGED <<users, providers, plans, events, tickets, subscriptions,
                   payments, invoices, payouts, ledgerRest>>

(* provider.delete() *)
ProviderDelete(id) ==
    /\ id \in IdsOf(providers)
    /\ IF ProviderProtected(id)
       THEN /\ result' = ProtectedError("ServiceProvider.delete", id)
            /\ UNCHANGED providers
       ELSE /\ result' = Ok("ServiceProvider.delete", id)
            /\ providers' = {x \in providers : x.id # id}
    /\ UNCHANGED <<users, subscribers, plans, events, tickets, subscriptions,
                   payments, invoices, payouts, ledgerRest>>

(* plan.delete() *)
PlanDelete(id) ==
    /\ id \in IdsOf(plans)
    /\ IF PlanProtected(id)
       THEN /\ result' = ProtectedError("ServicePlan.delete", id)
            /\ UNCHANGED plans
       ELSE /\ result' = Ok("ServicePlan.delete", id)
            /\ plans' = {x \in plans : x.id # id}
    /\ UNCHANGED <<users, subscribers, providers, events, tickets,
                   subscriptions, payments, invoices, payouts, ledgerRest>>

(* event.delete() *)
EventDelete(id) ==
    /\ id \in IdsOf(events)
    /\ IF EventProtected(id)
       THEN /\ result' = ProtectedError("Event.delete", id)
            /\ UNCHANGED events
       ELSE /\ result' = Ok("Event.delete", id)
            /\ events' = {x \in events : x.id # id}
    /\ UNCHANGED <<users, subscribers, providers, plans, tickets,
                   subscriptions, payments, invoices, payouts, ledgerRest>>

(* ticket.delete() *)
TicketDelete(id) ==
    /\ id \in IdsOf(tickets)
    /\ IF TicketProtected(id)
       THEN /\ result' = ProtectedError("Ticket.delete", id)
            /\ UNCHANGED tickets
       ELSE /\ result' = Ok("Ticket.delete", id)
            /\ tickets' = {x \in tickets : x.id # id}
    /\ UNCHANGED <<users, subscribers, providers, plans, events,
                   subscriptions, payments, invoices, payouts, ledgerRest>>

(* subscription.delete(): Invoice.subscription is SET_NULL *)
SubscriptionDelete(id) ==
    /\ id \in IdsOf(subscriptions)
    /\ IF SubscriptionProtected(id)
       THEN /\ result' = ProtectedError("Subscription.delete", id)
            /\ UNCHANGED <<subscriptions, invoices>>
       ELSE /\ result' = Ok("Subscription.delete", id)
            /\ subscriptions' = {x \in subscriptions : x.id # id}
            /\ invoices' = {IF x.subscription = id
                            THEN [x EXCEPT !.subscription = NULL] ELSE x :
                               x \in invoices}
    /\ UNCHANGED <<users, subscribers, providers, plans, events, tickets,
                   payments, payouts, ledgerRest>>

(* payment.delete(): Invoice.payment is SET_NULL *)
PaymentDelete(id) ==
    /\ id \in IdsOf(payments)
    /\ result' = Ok("PaymentTransaction.delete", id)
    /\ payments' = {x \in payments : x.id # id}
    /\ invoices' = {IF x.payment = id
                    THEN [x EXCEPT !.payment = NULL] ELSE x : x \in invoices}
    /\ UNCHANGED <<users, subscribers, providers, plans, events, tickets,
                   subscriptions, payouts, ledgerRest>>

----------------------------------------------------------------------------
Init ==
    /\ subscriptions = {}
    /\ payments = {}
    /\ invoices = {}
    /\ coupons = {}
    /\ payouts = {}
    /\ webhooks = {}
    /\ referralLinks = {}
    /\ tickets = {}
    /\ now = 0
    /\ result = Ok("none", <<>>)
    /\ NoWriter
    /\ users = {}
    /\ subscribers = {}
    /\ providers = {}
    /\ plans = {}
    /\ events = {}
    /\ organizations = {}
    /\ bundles = {}

NextSubscription ==
    \/ \E s \in Subscribers, p \in Plans : SubscriptionCreate(s, p)
    \/ \E id \in Ids, s \in Subscribers, p \in Plans :
          SubscriptionSave(id, s, p)
    \/ \E id \in Ids : SubscriptionSoftDelete(id)

SpecSubscription == Init /\ [][NextSubscription]_vars

NextPayment ==
    \/ \E ref \in Keys, ty \in PaymentTypes : PaymentCreate(ref, ty)
    \/ \E id \in Ids, ref \in Keys, ty \in PaymentTypes : PaymentSave(id, ref, ty)

SpecPayment == Init /\ [][NextPayment]_vars

NextInvoice ==
    \/ \E num \in Keys : InvoiceCreateDefault(num)
    \/ \E num \in Keys, a \in InvoiceAmounts : InvoiceCreate(num, a)
    \/ \E id \in Ids, a \in InvoiceAmounts : InvoiceSave(id, a)
    \/ \E id \in Ids, st \in InvoiceStatus : InvoiceSaveStatus(id, st)

SpecInvoice == Init /\ [][NextInvoice]_vars

NextCoupon ==
    \/ \E code \in Keys, limit \in {NULL} \cup Counts,
          n \in {NULL} \cup Counts, exp \in {NULL} \cup Times :
          CouponCreate(code, limit, n, exp)
    \/ \E id \in Ids : CouponRedeem(id)
    \/ \E id \in Ids, limit \in {NULL} \cup Counts,
          n \in {NULL} \cup Counts, exp \in {NULL} \cup Times :
          CouponSave(id, limit, n, exp)
    \/ Tick

SpecCoupon == Init /\ [][NextCoupon]_vars

NextPayout ==
    \/ \E tid \in Keys : PayoutCreate(tid)
    \/ \E id \in Ids, st \in PayoutStatus, n \in {NULL} \cup Attempts,
          err \in {"", "error"}, at \in {NULL} \cup Times :
          PayoutSave(id, st, n, err, at)

SpecPayout == Init /\ [][NextPayout]_vars

NextWebhook ==
    \/ \E e \in WebhookEvents, pl \in Payloads : WebhookCreate(e, pl)
    \/ \E id \in Ids, st \in WebhookStatus : WebhookMarkProcessed(id, st)
    \/ \E id \in Ids, e \in WebhookEvents, pl \in Payloads,
          st \in WebhookStatus, pr \in BOOLEAN : WebhookSave(id, e, pl, st, pr)
    \/ \E id \in Ids : WebhookDelete(id)
    \/ Tick

SpecWebhook == Init /\ [][NextWebhook]_vars

NextUnique ==
    \/ \E w \in Writers, t \in UniqueTables, k \in Keys : WriterBuild(w, t, k)
    \/ \E w \in Writers : WriterInsert(w)

SpecUnique == Init /\ [][NextUnique]_vars

(* One Coupon, one ReferralLink and one Payout exist, each as its create   *)
(* leaves it, the counters at their default 0.                             *)
InitCounter ==
    /\ subscriptions = {}
    /\ payments = {}
    /\ invoices = {}
    /\ \E limit \in {NULL, 1} : coupons = {NewCoupon(1, 1, limit, 0, NULL)}
    /\ payouts = {NewPayout(1, 1)}
    /\ webhooks = {}
    /\ referralLinks = {NewReferralLink(1, 1)}
    /\ tickets = {}
    /\ now = 0
    /\ result = Ok("none", <<>>)
    /\ NoWriter
    /\ users = {}
    /\ subscribers = {}
    /\ providers = {}
    /\ plans = {}
    /\ events = {}
    /\ organizations = {}
    /\ bundles = {}

NextCounter ==
    \/ \E w \in Writers, t \in CounterTables, id \in Ids : WriterLoad(w, t, id)
    \/ \E w \in Writers : WriterSaveIncrement(w)

SpecCounter == InitCounter /\ [][NextCounter]_vars

(* One User with its Subscriber profile, one User with its ServiceProvider *)
(* profile, one ServicePlan and one Event of that provider and one Ticket  *)
(* of that subscriber exist; the purchase and ledger tables are empty.     *)
InitLedger ==
    /\ users = {NewUser(1), NewUser(2)}
    /\ subscribers = {NewSubscriber(1, 1)}
    /\ providers = {NewProvider(1, 2)}
    /\ plans = {NewPlan(1, 1, SampleName, SampleName)}
    /\ events = {NewEvent(1, 1, SampleName, SampleName)}
    /\ tickets = {NewTicket(1, 1)}
    /\ subscriptions = {}
    /\ payments = {}
    /\ invoices = {}
    /\ coupons = {}
    /\ payouts = {}
    /\ webhooks = {}
    /\ referralLinks = {}
    /\ organizations = {}
    /\ bundles = {}
    /\ now = 0
    /\ result = Ok("none", <<>>)
    /\ NoWriter

NextLedger ==
    \/ \E s \in Subscribers, p \in Plans : SubscriptionCreateFor(s, p)
    \/ \E ref \in {1}, u \in 1..2, e \in {NULL, 1}, sub \in {NULL, 1},
          t \in {NULL, 1} : PaymentCreateFor(ref, u, e, sub, t)
    \/ \E num \in {1}, u \in 1..2, sub \in {NULL, 1}, pay \in {NULL, 1} :
          InvoiceCreateFor(num, u, sub, pay)
    \/ \E id \in Ids, ref \in {1} : PaymentSave(id, ref, "refund")
    \/ \E id \in Ids : SubscriptionSoftDelete(id)
    \/ \E id \in Ids : UserDelete(id)
    \/ \E id \in Ids : SubscriberDelete(id)
    \/ \E id \in Ids : ProviderDelete(id)
    \/ \E id \in Ids : PlanDelete(id)
    \/ \E id \in Ids : EventDelete(id)
    \/ \E id \in Ids : TicketDelete(id)
    \/ \E id \in Ids : SubscriptionDelete(id)
    \/ \E id \in Ids : PaymentDelete(id)

SpecLedger == InitLedger /\ [][NextLedger]_vars

NextCreate ==
    \/ \E s \in Subscribers, p \in Plans : SubscriptionCreateFor(s, p)
    \/ \E ref \in {1}, u \in 1..2, e \in {NULL, 1}, sub \in {NULL, 1},
          t \in {NULL, 1} : PaymentCreateFor(ref, u, e, sub, t)
    \/ \E num \in {1}, u \in 1..2, sub \in {NULL, 1}, pay \in {NULL, 1} :
          InvoiceCreateFor(num, u, sub, pay)
    \/ \E tid \in Keys, n \in {NULL, 0} : PayoutCreateFor(tid, n)
    \/ \E id \in Ids : UserDelete(id)

SpecCreate == InitLedger /\ [][NextCreate]_vars

----------------------------------------------------------------------------
(* Subscription lifecycle: the schema declares the status column, the two  *)
(* flags and the nullable timestamps; every lifecycle step is a save() of  *)
(* those columns, and no save() override, validator or constraint guards   *)
(* it.                                                                     *)
subscriptionRest == <<catalog, payments, invoices, coupons, payouts, webhooks,
                      referralLinks, tickets, pc, mem>>

NullableTimes == {NULL} \cup Times

(* Subscription.objects.create(subscriber=1, plan=1,                       *)
(*                             current_period_end=pe, auto_renew=ar)       *)
SubscriptionCheckout(pe, ar) ==
    LET r == [NewSubscription(NextPk(subscriptions), 1, 1) EXCEPT
                 !.current_period_end = pe, !.auto_renew = ar] IN
    /\ NextPk(subscriptions) \in 1..MaxLifecycleRows
    /\ IF SubscriptionUnique(subscriptions, r)
       THEN /\ subscriptions' = subscriptions \cup {r}
            /\ result' = Ok("Subscription.create", r.id)
       ELSE /\ subscriptions' = subscriptions
            /\ result' = IntegrityError("Subscription.create", r.id)
    /\ UNCHANGED <<now, subscriptionRest>>

(* subscription.save() of the row r in place of the stored row *)
SubscriptionStore(id, op, args, r) ==
    /\ subscriptions' = (subscriptions \ {Row(subscriptions, id)}) \cup {r}
    /\ result' = Ok(op, args)
    /\ UNCHANGED <<now, subscriptionRest>>

SubscriptionPauseUnstamped(id) ==
    /\ id \in IdsOf(subscriptions)
    /\ SubscriptionStore(id, "Subscription.pause", id,
          [Row(subscriptions, id) EXCEPT !.status = "paused"])

(* subscription.status = PAUSED; subscription.paused_at = now; save() *)
SubscriptionPause(id) ==
    /\ id \in IdsOf(subscriptions)
    /\ SubscriptionStore(id, "Subscription.pause", id,
          [Row(subscriptions, id) EXCEPT !.status = "paused", !.paused_at = now])

(* subscription.status = ACTIVE; subscription.resumed_at = now; save() *)
SubscriptionResume(id) ==
    /\ id \in IdsOf(subscriptions)
    /\ SubscriptionStore(id, "Subscription.resume", id,
          [Row(subscriptions, id) EXCEPT !.status = "active", !.resumed_at = now])

SubscriptionCancelEager(id, at_period_end) ==
    /\ id \in IdsOf(subscriptions)
    /\ SubscriptionStore(id, "Subscription.cancel", <<id, at_period_end>>,
          [Row(subscriptions, id) EXCEPT !.cancel_at_period_end = at_period_end,
                                         !.status = "canceled",
                                         !.canceled_at = now])

(* subscription.cancel_at_period_end = True; save()   or                   *)
(* subscription.status = CANCELED; subscription.canceled_at = now; save()  *)
SubscriptionCancel(id, at_period_end) ==
    /\ id \in IdsOf(subscriptions)
    /\ SubscriptionStore(id, "Subscription.cancel", <<id, at_period_end>>,
          IF at_period_end
          THEN [Row(subscriptions, id) EXCEPT !.cancel_at_period_end = TRUE]
          ELSE [Row(subscriptions, id) EXCEPT !.status = "canceled",
                                              !.canceled_at = now])

SubscriptionExpireOff(id) ==
    /\ id \in IdsOf(subscriptions)
    /\ SubscriptionStore(id, "Subscription.expire", id,
          [Row(subscriptions, id) EXCEPT !.status = "expired",
                                         !.auto_renew = FALSE])

(* subscription.status = EXPIRED; save() *)
SubscriptionExpire(id) ==
    /\ id \in IdsOf(subscriptions)
    /\ SubscriptionStore(id, "Subscription.expire", id,
          [Row(subscriptions, id) EXCEPT !.status = "expired"])

(* subscription.current_period_start = ps;                                 *)
(* subscription.current_period_end = pe; save()                            *)
SubscriptionRenew(id, ps, pe) ==
    /\ id \in IdsOf(subscriptions)
    /\ SubscriptionStore(id, "Subscription.renew", id,
          [Row(subscriptions, id) EXCEPT !.current_period_start = ps,
                                         !.current_period_end = pe])

NextLifecycle ==
    \/ \E pe \in NullableTimes, ar \in BOOLEAN : SubscriptionCheckout(pe, ar)
    \/ \E id \in Ids : SubscriptionPause(id)
    \/ \E id \in Ids : SubscriptionResume(id)
    \/ \E id \in Ids, at_period_end \in BOOLEAN :
          SubscriptionCancel(id, at_period_end)
    \/ \E id \in Ids : SubscriptionExpire(id)
    \/ Tick

SpecLifecycle == Init /\ [][NextLifecycle]_vars

NextPeriod ==
    \/ \E pe \in NullableTimes, ar \in BOOLEAN : SubscriptionCheckout(pe, ar)
    \/ \E id \in Ids, ps \in NullableTimes, pe \in NullableTimes :
          SubscriptionRenew(id, ps, pe)
    \/ Tick

SpecPeriod == Init /\ [][NextPeriod]_vars

----------------------------------------------------------------------------
(* Slugs: Organization, ServicePlan, Event and Bundle override save() to   *)
(* fill an empty slug from the name; slug is SlugField(unique=True).       *)
(* Strings are sequences of one-character strings.                         *)
SampleNames == {<<"A", " ", "b">>, <<"a", "-", "-", "b", "!">>, <<"!", "_">>}

SampleSlugs == {<<>>, <<"z">>}

Lower(c) == CASE c = "A" -> "a" [] c = "B" -> "b" [] OTHER -> c

IsWordSpaceHyphen(c) == c \in {"a", "b", "z", "_", " ", "-"}

IsSeparator(c) == c \in {"-", " "}

RECURSIVE CollapseSeparators(_)
CollapseSeparators(s) ==
    IF s = <<>> THEN <<>>
    ELSE IF IsSeparator(Head(s))
         THEN IF Len(s) > 1 /\ IsSeparator(s[2])
              THEN CollapseSeparators(Tail(s))
              ELSE <<"-">> \o CollapseSeparators(Tail(s))
         ELSE <<Head(s)>> \o CollapseSeparators(Tail(s))

RECURSIVE StripEnds(_)
StripEnds(s) ==
    IF s = <<>> THEN <<>>
    ELSE IF Head(s) \in {"-", "_"} THEN StripEnds(Tail(s))
    ELSE IF s[Len(s)] \in {"-", "_"} THEN StripEnds(SubSeq(s, 1, Len(s) - 1))
    ELSE s

(* django.utils.text.slugify: lower-case, drop what is not a word          *)
(* character, white space or hyphen, turn each run of white space and      *)
(* hyphens into one hyphen, strip leading and trailing "-" and "_"         *)
slugify(value) ==
    StripEnds(CollapseSeparators(
        SelectSeq([i \in 1..Len(value) |-> Lower(value[i])], IsWordSpaceHyphen)))

NewOrganization(id, name, slug) == [id |-> id, name |-> name, slug |-> slug]

NewBundle(id, name, slug) == [id |-> id, name |-> name, slug |-> slug]

SlugUnique(rows, r) == \A x \in rows : x.id # r.id => x.slug # r.slug

SluggedAlways(r) == [r EXCEPT !.slug = slugify(r.name)]

(* if not self.slug: self.slug = slugify(self.name) *)
Slugged(r) == IF r.slug = <<>> THEN [r EXCEPT !.slug = slugify(r.name)] ELSE r

(* super().save(): the table after the insert or update of r *)
SlugSaveRows(rows, r) ==
    IF SlugUnique(rows, Slugged(r))
    THEN {x \in rows : x.id # r.id} \cup {Slugged(r)}
    ELSE rows

SlugSaveResult(rows, r, op) ==
    IF SlugUnique(rows, Slugged(r))
    THEN Ok(op, <<r.id, r.name, r.slug>>)
    ELSE IntegrityError(op, <<r.id, r.name, r.slug>>)

SlugRows == Cardinality(organizations) + Cardinality(plans)
            + Cardinality(events) + Cardinality(bundles)

slugRest == <<users, subscribers, providers, subscriptions, payments, invoices,
              coupons, payouts, webhooks, referralLinks, tickets, now, pc, mem>>

(* Organization(name=name, slug=slug).save() *)
OrganizationCreate(name, slug) ==
    LET r == NewOrganization(NextPk(organizations), name, slug) IN
    /\ SlugRows < MaxSlugRows
    /\ organizations' = SlugSaveRows(organizations, r)
    /\ result' = SlugSaveResult(organizations, r, "Organization.save")
    /\ UNCHANGED <<plans, events, bundles, slugRest>>

(* organization.name = name; organization.save() *)
OrganizationRename(id, name) ==
    /\ id \in IdsOf(organizations)
    /\ LET r == [Row(organizations, id) EXCEPT !.name = name] IN
       /\ organizations' = SlugSaveRows(organizations, r)
       /\ result' = SlugSaveResult(organizations, r, "Organization.save")
    /\ UNCHANGED <<plans, events, bundles, slugRest>>

(* ServicePlan(provider=1, name=name, slug=slug).save() *)
PlanCreate(name, slug) ==
    LET r == NewPlan(NextPk(plans), 1, name, slug) IN
    /\ SlugRows < MaxSlugRows
    /\ plans' = SlugSaveRows(plans, r)
    /\ result' = SlugSaveResult(plans, r, "ServicePlan.save")
    /\ UNCHANGED <<organizations, events, bundles, slugRest>>

(* plan.name = name; plan.save() *)
PlanRename(id, name) ==
    /\ id \in IdsOf(plans)
    /\ LET r == [Row(plans, id) EXCEPT !.name = name] IN
       /\ plans' = SlugSaveRows(plans, r)
       /\ result' = SlugSaveResult(plans, r, "ServicePlan.save")
    /\ UNCHANGED <<organizations, events, bundles, slugRest>>

(* Event(provider=1, name=name, slug=slug).save() *)
EventCreate(name, slug) ==
    LET r == NewEvent(NextPk(events), 1, name, slug) IN
    /\ SlugRows < MaxSlugRows
    /\ events' = SlugSaveRows(events, r)
    /\ result' = SlugSaveResult(events, r, "Event.save")
    /\ UNCHANGED <<organizations, plans, bundles, slugRest>>

(* event.name = name; event.save() *)
EventRename(id, name) ==
    /\ id \in IdsOf(events)
    /\ LET r == [Row(events, id) EXCEPT !.name = name] IN
       /\ events' = SlugSaveRows(events, r)
       /\ result' = SlugSaveResult(events, r, "Event.save")
    /\ UNCHANGED <<organizations, plans, bundles, slugRest>>

(* Bundle(name=name, slug=slug).save() *)
BundleCreate(name, slug) ==
    LET r == NewBundle(NextPk(bundles), name, slug) IN
    /\ SlugRows < MaxSlugRows
    /\ bundles' = SlugSaveRows(bundles, r)
    /\ result' = SlugSaveResult(bundles, r, "Bundle.save")
    /\ UNCHANGED <<organizations, plans, events, slugRest>>

(* bundle.name = name; bundle.save() *)
BundleRename(id, name) ==
    /\ id \in IdsOf(bundles)
    /\ LET r == [Row(bundles, id) EXCEPT !.name = name] IN
       /\ bundles' = SlugSaveRows(bundles, r)
       /\ result' = SlugSaveResult(bundles, r, "Bundle.save")
    /\ UNCHANGED <<organizations, plans, events, slugRest>>

InitSlug ==
    /\ users = {NewUser(2)}
    /\ subscribers = {}
    /\ providers = {NewProvider(1, 2)}
    /\ plans = {}
    /\ events = {}
    /\ organizations = {}
    /\ bundles = {}
    /\ tickets = {}
    /\ subscriptions = {}
    /\ payments = {}
    /\ invoices = {}
    /\ coupons = {}
    /\ payouts = {}
    /\ webhooks = {}
    /\ referralLinks = {}
    /\ now = 0
    /\ result = Ok("none", <<>>)
    /\ NoWriter

NextSlug ==
    \/ \E name \in SampleNames, slug \in SampleSlugs : OrganizationCreate(name, slug)
    \/ \E id \in Ids, name \in SampleNames : OrganizationRename(id, name)
    \/ \E name \in SampleNames, slug \in SampleSlugs : PlanCreate(name, slug)
    \/ \E id \in Ids, name \in SampleNames : PlanRename(id, name)
    \/ \E name \in SampleNames, slug \in SampleSlugs : EventCreate(name, slug)
    \/ \E id \in Ids, name \in SampleNames : EventRename(id, name)
    \/ \E name \in SampleNames, slug \in SampleSlugs : BundleCreate(name, slug)
    \/ \E id \in Ids, name \in SampleNames : BundleRename(id, name)

SpecSlug == InitSlug /\ [][NextSlug]_vars

----------------------------------------------------------------------------
(* C1: no two Subscription rows share a (subscriber, plan) pair, and a     *)
(* create for a pair that already has a row raises the duplicate error and *)
(* adds no row.                                                            *)
SubscriptionPairsUnique(rows) ==
    \A x \in rows, y \in rows :
        (x.subscriber = y.subscriber /\ x.plan = y.plan) => x = y

C1_UniquePair ==
    [][/\ SubscriptionPairsUnique(subscriptions')
       /\ (/\ result'.op = "Subscription.create"
           /\ \E x \in subscriptions :
                 <<x.subscriber, x.plan>> = result'.args)
          => (/\ result'.outcome = "IntegrityError"
              /\ subscriptions' = subscriptions)]_vars

C1_Witness ==
    /\ result.op = "Subscription.create"
    /\ result.outcome = "IntegrityError"
    /\ \E x \in subscriptions :
          /\ <<x.subscriber, x.plan>> = result.args
          /\ ~x.is_active

(* C2: PaymentTransaction rows have pairwise distinct references; recording *)
(* a charge whose reference an existing row carries is rejected and leaves  *)
(* the rows unchanged, so replays of one callback leave one row.            *)
ReferencesDistinct(rows) ==
    \A x \in rows, y \in rows : x.reference = y.reference => x = y

C2_UniqueReference ==
    [][/\ ReferencesDistinct(payments')
       /\ (/\ result'.op = "PaymentTransaction.create"
           /\ \E x \in payments : x.reference = result'.args)
          => (/\ result'.outcome = "IntegrityError"
              /\ payments' = payments)]_vars

C2_Witness ==
    /\ result.op = "PaymentTransaction.create"
    /\ result.outcome = "IntegrityError"
    /\ Cardinality({x \in payments : x.reference = result.args}) = 1

(* C5 as stated: every persisted Invoice has                               *)
(* total_amount = subtotal + tax_amount, after any write.                  *)
InvoiceBalanced(x) == x.total_amount = x.subtotal + x.tax_amount

C5_TotalAlways == \A x \in invoices : InvoiceBalanced(x)

(* C5 amended: an Invoice created with the default amounts has             *)
(* total_amount = subtotal + tax_amount, and a write that assigns no       *)
(* amount keeps the equation of a row that satisfies it.                   *)
C5_TotalByDefault ==
    [][/\ (result'.op = "Invoice.create" /\ result'.args = "default")
          => \A x \in invoices' \ invoices : InvoiceBalanced(x)
       /\ (result'.op = "Invoice.save" /\ result'.args = "status")
          => \A x \in invoices, y \in invoices' :
                (x.id = y.id /\ InvoiceBalanced(x)) => InvoiceBalanced(y)]_vars

C5_Witness ==
    /\ result.op = "Invoice.save"
    /\ result.args = "status"
    /\ \E x \in invoices : InvoiceBalanced(x) /\ x.status = "paid"

(* C3 as stated: a Coupon whose usage_limit is set has                     *)
(* times_redeemed <= usage_limit in every reachable state.                 *)
C3_WithinLimit ==
    \A x \in coupons :
        x.usage_limit # NULL => x.times_redeemed <= x.usage_limit

(* C4 as stated: a redemption of a coupon whose expires_at has passed, or  *)
(* whose usage_limit is set and reached, fails and leaves times_redeemed   *)
(* unchanged; any other redemption adds exactly one to times_redeemed.     *)
CouponExpired(x) == x.expires_at # NULL /\ x.expires_at < now

CouponExhausted(x) == x.usage_limit # NULL /\ x.times_redeemed >= x.usage_limit

C4_GuardedRedeem ==
    [][result'.op = "Coupon.redeem" =>
         \A x \in coupons : x.id = result'.args =>
            \E y \in coupons' :
               /\ y.id = x.id
               /\ IF CouponExpired(x) \/ CouponExhausted(x)
                  THEN /\ result'.outcome # "ok"
                       /\ y.times_redeemed = x.times_redeemed
                  ELSE y.times_redeemed = x.times_redeemed + 1]_vars

(* C6 as stated: a failed Payout stays failed; a pending Payout whose      *)
(* attempts reached retry_attempts and whose dispatch fails again becomes  *)
(* failed; a pending Payout never has more than retry_attempts attempts.   *)
C6_PayoutRetry ==
    [][\A x \in payouts : \A y \in payouts' : y.id = x.id =>
         /\ x.status = "failed" => y.status = "failed"
         /\ (/\ x.status = "pending"
             /\ x.attempts >= retry_attempts
             /\ y.attempts > x.attempts
             /\ y.last_error # "") => y.status = "failed"
         /\ y.status = "pending" => y.attempts <= retry_attempts]_vars

(* C7 as stated: the payload and event of a PaystackWebhook row never      *)
(* change after the row is inserted, in particular not when the row is     *)
(* marked processed.                                                       *)
C7_PayloadFrozen ==
    [][\A x \in webhooks : \A y \in webhooks' : y.id = x.id =>
         (y.payload = x.payload /\ y.event = x.event)]_vars

(* C8 as stated: a PaystackWebhook row whose processing failed is never    *)
(* removed, and it becomes processed only by a processing run, which sets  *)
(* processed and processed_at.                                             *)
C8_FailedKept ==
    [][\A x \in webhooks : x.status = "failed" =>
         \E y \in webhooks' :
            /\ y.id = x.id
            /\ y.status = "processed" =>
                  (y.processed /\ y.processed_at # NULL)]_vars

(* C9: of the concurrent inserts that carry the same unique key into the   *)
(* same table at most one succeeds, and no table holds two rows with one   *)
(* key, in every interleaving.                                             *)
KeysDistinct ==
    /\ \A x \in payments, y \in payments : x.reference = y.reference => x = y
    /\ \A x \in coupons, y \in coupons : x.code = y.code => x = y
    /\ \A x \in referralLinks, y \in referralLinks : x.code = y.code => x = y
    /\ \A x \in invoices, y \in invoices :
          x.invoice_number = y.invoice_number => x = y
    /\ \A x \in payouts, y \in payouts :
          x.paystack_transfer_id = y.paystack_transfer_id => x = y
    /\ \A x \in tickets, y \in tickets : x.ticket_uuid = y.ticket_uuid => x = y

C9_OneInsertWins ==
    /\ KeysDistinct
    /\ \A v \in Writers, w \in Writers :
          (/\ v # w
           /\ pc[v] = "done" /\ pc[w] = "done"
           /\ mem[v].table = mem[w].table /\ mem[v].key = mem[w].key)
          => ~(mem[v].outcome = "ok" /\ mem[w].outcome = "ok")

C9_Witness ==
    \E v \in Writers, w \in Writers :
       /\ pc[v] = "done" /\ pc[w] = "done"
       /\ mem[v].table = "Ticket" /\ mem[w].table = "Ticket"
       /\ mem[v].key = mem[w].key
       /\ mem[v].outcome = "ok" /\ mem[w].outcome = "IntegrityError"

(* C10 as stated: when the increments of the writers have all run, each    *)
(* counter is higher by the number of increments made on it, and a Coupon  *)
(* whose usage_limit is set never has times_redeemed above it.             *)
Increments(t) == Cardinality({w \in Writers : pc[w] = "done" /\ mem[w].table = t})

C10_NoLostUpdate ==
    /\ (\A w \in Writers : pc[w] \in {"idle", "done"}) =>
          \A t \in CounterTables : \A x \in CounterRows(t) :
             CounterOf(t, x) = Increments(t)
    /\ \A x \in coupons :
          x.usage_limit # NULL => x.times_redeemed <= x.usage_limit

(* C11 as stated: deleting a ServicePlan, Event, Ticket, Subscription,     *)
(* Subscriber or User fails and changes nothing while a Subscription,      *)
(* PaymentTransaction or Invoice refers to it, and no delete removes or    *)
(* nulls a reference that a payment or an invoice holds.                   *)
ledgerTables == <<users, subscribers, providers, plans, events, tickets,
                  subscriptions, payments, invoices>>

ReferredTo(op, id) ==
    CASE op = "ServicePlan.delete" -> \E x \in subscriptions : x.plan = id
      [] op = "Subscriber.delete" -> \E x \in subscriptions : x.subscriber = id
      [] op = "Event.delete" -> \E x \in payments : x.event = id
      [] op = "Ticket.delete" -> \E x \in payments : x.ticket = id
      [] op = "Subscription.delete" ->
            \/ \E x \in payments : x.subscription = id
            \/ \E x \in invoices : x.subscription = id
      [] op = "User.delete" ->
            \/ \E x \in payments : x.user = id
            \/ \E x \in invoices : x.user = id
      [] OTHER -> FALSE

ReferredToByProtect(op, id) ==
    IF op = "Subscription.delete"
    THEN \E x \in payments : x.subscription = id
    ELSE ReferredTo(op, id)

C11_ProtectAll ==
    [][/\ ReferredTo(result'.op, result'.args)
          => (result'.outcome = "ProtectedError" /\ UNCHANGED ledgerTables)
       /\ \A x \in invoices : \A y \in invoices' : y.id = x.id =>
             (y.subscription = x.subscription /\ y.payment = x.payment)]_vars

(* C11 amended: a delete fails and changes nothing while a PROTECT         *)
(* relation refers to the row (Subscription to Subscriber and ServicePlan; *)
(* PaymentTransaction to User, Event, Subscription and Ticket; Invoice to  *)
(* User), so these references always point at rows that exist; the         *)
(* SET_NULL references of an Invoice are outside this.                     *)
C11_Protect ==
    [][/\ ReferredToByProtect(result'.op, result'.args)
          => (result'.outcome = "ProtectedError" /\ UNCHANGED ledgerTables)
       /\ \A x \in payments' :
             /\ x.user \in IdsOf(users')
             /\ x.event = NULL \/ x.event \in IdsOf(events')
             /\ x.subscription = NULL \/ x.subscription \in IdsOf(subscriptions')
             /\ x.ticket = NULL \/ x.ticket \in IdsOf(tickets')
       /\ \A x \in invoices' : x.user \in IdsOf(users')
       /\ \A x \in subscriptions' :
             /\ x.subscriber \in IdsOf(subscribers')
             /\ x.plan \in IdsOf(plans')]_vars

C11_Witness ==
    /\ result.op = "Subscription.delete"
    /\ result.outcome = "ProtectedError"
    /\ \E x \in payments : x.subscription = result.args
    /\ \E x \in invoices : x.subscription = result.args

(* C12 as stated: a Subscription row, once created, stays in the store.    *)
C12_NeverHardDeleted ==
    [][\A x \in subscriptions : \E y \in subscriptions' : y.id = x.id]_vars

(* C13 as stated: a PaymentTransaction row, once written, is never changed *)
(* and never removed.                                                      *)
C13_PaymentImmutable ==
    [][\A x \in payments : x \in payments']_vars

(* C14: a create of a PaymentTransaction, Payout or Invoice that fails     *)
(* leaves every table as it was, and one that succeeds adds one row and    *)
(* changes no existing row.                                                *)
LedgerCreates == {"PaymentTransaction.create", "Payout.create", "Invoice.create"}

Paused(r, t) == [r EXCEPT !.status = "paused", !.paused_at = t]

Resumed(r, t) == [r EXCEPT !.status = "active", !.resumed_at = t]

Replaced(old, new) == subscriptions' = (subscriptions \ {old}) \cup {new}

CanceledAtEnd(r) == [r EXCEPT !.cancel_at_period_end = TRUE]

CanceledNow(r, t) == [r EXCEPT !.status = "canceled", !.canceled_at = t]

PastPeriodEnd(r, t) == r.current_period_end # NULL /\ r.current_period_end < t

CancelStores ==
    result'.op = "Subscription.cancel" =>
       LET old == Row(subscriptions, result'.args[1]) IN
       /\ result'.outcome = "ok"
       /\ IF result'.args[2]
          THEN Replaced(old, CanceledAtEnd(old))
          ELSE Replaced(old, CanceledNow(old, now))

C18_PeriodOrdered ==
    \A x \in subscriptions :
        (x.current_period_start # NULL /\ x.current_period_end # NULL)
           => x.current_period_start <= x.current_period_end

(* C19 as stated: a paid Payout has processed_at set and a pending Payout  *)
(* has processed_at null.                                                  *)
C19_PaidProcessed ==
    \A x \in payouts :
        /\ x.status = "paid" => x.processed_at # NULL
        /\ x.status = "pending" => x.processed_at = NULL

(* C20: save() of an Organization, ServicePlan, Event or Bundle stores     *)
(* slugify(name) as the slug when the slug it holds is empty and the held  *)
(* slug otherwise, so a stored non-empty slug never changes, by a rename   *)
(* or by a second save; and a save whose slug is already on another row    *)
(* of the table fails with IntegrityError and changes nothing.             *)
SlugStep(rows, rowsAfter, op) ==
    /\ result'.op # op => rowsAfter = rows
    /\ result'.op = op =>
          LET id == result'.args[1]
              name == result'.args[2]
              held == result'.args[3]
              stored == IF held = <<>> THEN slugify(name) ELSE held IN
          IF \E x \in rows : x.id # id /\ x.slug = stored
          THEN result'.outcome = "IntegrityError" /\ rowsAfter = rows
          ELSE /\ result'.outcome = "ok"
               /\ \E y \in rowsAfter :
                     y.id = id /\ y.name = name /\ y.slug = stored
               /\ {y \in rowsAfter : y.id # id} = {x \in rows : x.id # id}
    /\ \A x \in rows : \A y \in rowsAfter :
          (y.id = x.id /\ x.slug # <<>>) => y.slug = x.slug
    /\ \A x \in rowsAfter : \A y \in rowsAfter : x.slug = y.slug => x = y

C20_SlugOnSave ==
    [][/\ SlugStep(organizations, organizations', "Organization.save")
       /\ SlugStep(plans, plans', "ServicePlan.save")
       /\ SlugStep(events, events', "Event.save")
       /\ SlugStep(bundles, bundles', "Bundle.save")]_vars

C20_Witness ==
    /\ result.op = "Event.save"
    /\ result.outcome = "IntegrityError"
    /\ result.args[1] \notin IdsOf(events)
    /\ result.args[3] = <<>>
    /\ \E x \in events : x.slug = <<"a", "-", "b">> /\ x.name # result.args[2]

====
